---- MODULE Spec2Model ----
(***************************************************************************)
(* A model of CYOAI_with_admin.py: the blocklist kept in rules.json, the   *)
(* in-memory list BLOCKED_PATTERNS, the matcher is_malicious, the chat     *)
(* handler and the admin handlers, run by concurrent request threads.      *)
(*                                                                         *)
(* A Python str is a record [ty |-> "str", s |-> <<characters>>]; any other *)
(* JSON scalar is [ty |-> "int", s |-> <<digits>>].  The file rules.json is *)
(* a sequence of JSON tokens, each a record of the same shape.             *)
(***************************************************************************)
EXTENDS Integers, Sequences, FiniteSets, TLC

\* ------------------------------------------------------------------ bounds
\* Request threads the server runs at once.
NumThreads == 2
\* Requests served in one run of the model.
MaxRequests == 3
\* Requests, among those, that arrive while another is being handled.
MaxOverlap == 1
\* Longest rule list the start-up file of the matcher runs holds.
MaxRules == 2
\* Longest text the matcher runs draw from TextChars.
MaxTextLen == 2

\* ------------------------------------------------------------ Python values
Str(chars) == [ty |-> "str", s |-> chars]

Num(digits) == [ty |-> "int", s |-> digits]

IsStr(v) == v.ty = "str"

\* str.lower() on one character of the model's alphabet.
LowerChar(c) ==
    CASE c = "A" -> "a"
      [] c = "B" -> "b"
      [] c = "E" -> "e"
      [] c = "R" -> "r"
      [] OTHER -> c

\* str.lower()
Lower(s) == [i \in 1..Len(s) |-> LowerChar(s[i])]

IsSpace(c) == c = " "

\* str.strip(): leading and trailing whitespace removed.
RECURSIVE LStrip(_)
LStrip(s) ==
    IF s # <<>> /\ IsSpace(Head(s)) THEN LStrip(Tail(s)) ELSE s

RECURSIVE RStrip(_)
RStrip(s) ==
    IF s # <<>> /\ IsSpace(s[Len(s)]) THEN RStrip(SubSeq(s, 1, Len(s) - 1)) ELSE s

Strip(s) == RStrip(LStrip(s))

\* `sub in s` for two str values.
Contains(s, sub) ==
    \E off \in 0..(Len(s) - Len(sub)) :
        \A j \in 1..Len(sub) : s[off + j] = sub[j]

\* s.startswith(prefix)
StartsWith(s, prefix) ==
    /\ Len(s) >= Len(prefix)
    /\ \A j \in 1..Len(prefix) : s[j] = prefix[j]

\* The regex marker of line 72 and the slice pat[3:] of line 73.
RegexTag == <<"r", "e", ":">>

RegexBody(s) == SubSeq(s, Len(RegexTag) + 1, Len(s))

\* re.compile on the pattern syntax the model uses: ordinary characters,
\* "." (any character) and "(" (opens a group).  The alphabet has no ")",
\* so a pattern with "(" is an unterminated group and raises re.error.
ReCompiles(body) == \A j \in 1..Len(body) : body[j] # "("

\* re.search(body, t) for a pattern that compiles: an occurrence anywhere
\* in t, each character compared as written (no flags are passed).
ReSearch(body, t) ==
    \E off \in 0..(Len(t) - Len(body)) :
        \A j \in 1..Len(body) : body[j] = "." \/ body[j] = t[off + j]

\* ------------------------------------------------------------------- rules
DEFAULT_RULES ==
    << Str(<<"d","d","o","s">>),
       Str(<<"e","x","p","l","o","i","t">>),
       Str(<<"z","e","r","o","-","d","a","y">>),
       Str(<<"b","a","c","k","d","o","o","r">>),
       Str(<<"r","o","o","t","k","i","t">>),
       Str(<<"t","r","o","j","a","n">>),
       Str(<<"p","a","s","s","w","o","r","d"," ","c","r","a","c","k","i","n","g">>),
       Str(<<"b","r","u","t","e","-","f","o","r","c","e">>),
       Str(<<"b","y","p","a","s","s"," ","s","e","c","u","r","i","t","y">>),
       Str(<<"u","n","a","u","t","h","o","r","i","z","e","d">>),
       Str(<<"h","o","w"," ","t","o"," ","h","a","c","k">>),
       Str(<<"d","e","l","e","t","e"," ","d","a","t","a">>) >>

\* Line 73: re.search(pat[3:], t) for a regex-tagged rule whose body compiles.
RegexMatches(pat, t) == ReSearch(RegexBody(pat), t)

\* LiteralMatches without the lower() of the rule.
LiteralMatchesCased(pat, t) == Contains(t, pat)

\* Lines 76 and 80: pat.lower() in t, on the whole rule text as stored.
LiteralMatches(pat, t) == Contains(t, Lower(pat))

\* RuleVerdict without the handler of lines 78-81: re.error leaves the loop.
RuleVerdictNoHandler(pat, t) ==
    IF ~IsStr(pat) THEN "raise"
    ELSE IF StartsWith(pat.s, RegexTag)
         THEN IF ReCompiles(RegexBody(pat.s))
              THEN IF RegexMatches(pat.s, t) THEN "match" ELSE "next"
              ELSE "raise"
         ELSE IF LiteralMatches(pat.s, t) THEN "match" ELSE "next"

\* One iteration of the loop body of is_malicious (lines 70-81) for rule
\* pat against the lower-cased text t: "match" (return True), "next" (go on
\* to the following rule) or "raise" (an exception leaves is_malicious).
\* A rule that is not a str has no startswith and no lower: the try body and
\* the except handler both raise AttributeError.  A regex body that does not
\* compile raises re.error in the try body and the handler of line 78 runs.
RuleVerdict(pat, t) ==
    IF ~IsStr(pat) THEN "raise"
    ELSE IF StartsWith(pat.s, RegexTag)
         THEN IF ReCompiles(RegexBody(pat.s))
              THEN IF RegexMatches(pat.s, t) THEN "match" ELSE "next"
              ELSE IF LiteralMatches(pat.s, t) THEN "match" ELSE "next"
         ELSE IF LiteralMatches(pat.s, t) THEN "match" ELSE "next"

\* -------------------------------------------------------------- rules.json
Tok(ty) == [ty |-> ty, s |-> <<>>]

ValueToken(tok) == tok.ty \in {"str", "int"}

\* The text json.dump writes between the quotes of a str: a quote and a
\* backslash are each written after a backslash.  (The control characters
\* and non-ASCII characters it also escapes are not in the model's alphabet.)
RECURSIVE JsonEscape(_)
JsonEscape(s) ==
    IF s = <<>> THEN <<>>
    ELSE (IF Head(s) \in {"\"", "\\"} THEN <<"\\", Head(s)>> ELSE <<Head(s)>>)
             \o JsonEscape(Tail(s))

\* The str json.load makes of the text between the quotes.
RECURSIVE JsonUnescape(_)
JsonUnescape(s) ==
    IF s = <<>> THEN <<>>
    ELSE IF Head(s) = "\\" /\ Len(s) >= 2
         THEN <<s[2]>> \o JsonUnescape(SubSeq(s, 3, Len(s)))
         ELSE <<Head(s)>> \o JsonUnescape(Tail(s))

\* Whether json.load accepts s as the text between the quotes of a str: a
\* backslash starts one of the escapes above and no quote stands bare.
RECURSIVE JsonTextOk(_)
JsonTextOk(s) ==
    IF s = <<>> THEN TRUE
    ELSE IF Head(s) = "\\"
         THEN Len(s) >= 2 /\ s[2] \in {"\"", "\\"} /\ JsonTextOk(SubSeq(s, 3, Len(s)))
         ELSE Head(s) # "\"" /\ JsonTextOk(Tail(s))

\* A token json.load reads as one scalar value.
IsValue(tok) == ValueToken(tok) /\ (IsStr(tok) => JsonTextOk(tok.s))

\* The token json.dump writes for one element, and the element json.load
\* makes of one value token.
JsonEncodeValue(v) == IF IsStr(v) THEN Str(JsonEscape(v.s)) ELSE v

JsonDecodeValue(tok) == IF IsStr(tok) THEN Str(JsonUnescape(tok.s)) ELSE tok

\* json.dump(rules_list, f, indent=2): the tokens of the array, in order.
RECURSIVE JsonItems(_)
JsonItems(list) ==
    IF list = <<>> THEN <<>>
    ELSE IF Len(list) = 1 THEN <<JsonEncodeValue(list[1])>>
    ELSE <<JsonEncodeValue(list[1]), Tok(",")>> \o JsonItems(Tail(list))

JsonDump(list) == <<Tok("[")>> \o JsonItems(list) \o <<Tok("]")>>

\* Whether the tokens between the brackets are value, comma, value, ...
WellSeparated(inner) ==
    /\ Len(inner) % 2 = 1
    /\ \A i \in 1..Len(inner) :
          IF i % 2 = 1 THEN IsValue(inner[i]) ELSE inner[i].ty = ","

\* json.load(f) on the tokens of the file: [ok |-> FALSE] when it raises
\* JSONDecodeError, else the value's kind and, for an array, its elements.
JsonLoad(data) ==
    LET n == Len(data)
        inner == SubSeq(data, 2, n - 1)
    IN  IF n = 0 THEN [ok |-> FALSE, list |-> FALSE, val |-> <<>>]
        ELSE IF n = 1 /\ IsValue(data[1])
             THEN [ok |-> TRUE, list |-> FALSE, val |-> <<>>]
        ELSE IF n = 2 /\ data[1].ty = "{" /\ data[2].ty = "}"
             THEN [ok |-> TRUE, list |-> FALSE, val |-> <<>>]
        ELSE IF n >= 2 /\ data[1].ty = "[" /\ data[n].ty = "]"
             THEN IF inner = <<>>
                  THEN [ok |-> TRUE, list |-> TRUE, val |-> <<>>]
                  ELSE IF WellSeparated(inner)
                       THEN [ok |-> TRUE, list |-> TRUE,
                             val |-> [i \in 1..((Len(inner) + 1) \div 2) |->
                                         JsonDecodeValue(inner[2 * i - 1])]]
                       ELSE [ok |-> FALSE, list |-> FALSE, val |-> <<>>]
        ELSE [ok |-> FALSE, list |-> FALSE, val |-> <<>>]

\* Lines 52-55: json.load succeeded and isinstance(rules, list).
LoadsList(data) == JsonLoad(data).ok /\ JsonLoad(data).list

\* ------------------------------------------------------------------ int()
IsDigit(c) == c \in {"0", "1", "2", "9"}

DigitValue(c) ==
    CASE c = "0" -> 0
      [] c = "1" -> 1
      [] c = "2" -> 2
      [] OTHER -> 9

RECURSIVE DigitsValue(_)
DigitsValue(ds) ==
    IF ds = <<>> THEN 0
    ELSE 10 * DigitsValue(SubSeq(ds, 1, Len(ds) - 1)) + DigitValue(ds[Len(ds)])

\* int(s) of line 337: surrounding whitespace dropped, an optional sign, then
\* one or more digits; anything else raises ValueError ([ok |-> FALSE]).
IntParse(s) ==
    LET body == Strip(s)
        signed == body # <<>> /\ body[1] \in {"-", "+"}
        digits == IF signed THEN Tail(body) ELSE body
        mag == DigitsValue(digits)
    IN  IF digits # <<>> /\ \A i \in 1..Len(digits) : IsDigit(digits[i])
        THEN [ok |-> TRUE, n |-> IF signed /\ body[1] = "-" THEN 0 - mag ELSE mag]
        ELSE [ok |-> FALSE, n |-> 0]

\* The file as the file system holds it.
NoFile == [exists |-> FALSE, data |-> <<>>]

File(data) == [exists |-> TRUE, data |-> data]

\* ------------------------------------------------------------------- state
Threads == 1..NumThreads

\* Thread 0 is the main thread, which imports the module (line 65) and then
\* serves; 1..NumThreads handle requests.
AllThreads == 0..NumThreads

Sessions == {"s1", "s2"}

VARIABLES
    disk,              \* rules.json: [exists, data], data the tokens it holds
    BLOCKED_PATTERNS,  \* the module-level list of line 65
    session,           \* session[s]: the is_admin flag of browser session s
    th,                \* th[t]: the handler thread t runs and its local variables
    nreq,              \* requests started so far
    novl,              \* requests started while another was being handled
    solo,              \* the request that has run with nothing interleaved so far
    hist,              \* every list BLOCKED_PATTERNS has been bound to
    defaults           \* the elements of the list object DEFAULT_RULES names

vars == <<disk, BLOCKED_PATTERNS, session, th, nreq, novl, solo, hist, defaults>>

NoResp == [status |-> 0, msg |-> "", answer |-> <<>>]

NoRaw == [read |-> FALSE, data |-> <<>>]

\* A thread between requests; the fields are the handlers' local variables.
Idle ==
    [kind |-> "idle", pc |-> "idle", sess |-> "none",
     prompt |-> <<>>, answer |-> <<>>, gen |-> "no",
     chk |-> "none", text |-> <<>>, it |-> <<>>, pos |-> 0, seen |-> <<>>,
     ended |-> "no", snap1 |-> <<>>, verdict1 |-> "none", verdict2 |-> "none",
     form |-> <<>>, pattern |-> <<>>, idx |-> 0, rules |-> <<>>, alias |-> FALSE,
     removed |-> <<>>, local_bp |-> <<>>,
     raw |-> NoRaw, created |-> FALSE, recovered |-> FALSE, lr_ret |-> "none",
     sv_list |-> <<>>, sv_off |-> 0, sv_ret |-> "none",
     resp |-> NoResp]

\* solo.who is the thread whose request began with every other thread idle
\* and has seen no step of another thread since, or the main thread while it
\* starts the server (-1: there is none); disk0 and mem0 are the file and the
\* in-memory list as it found them.
Nobody == [who |-> 0 - 1, disk0 |-> NoFile, mem0 |-> <<>>]

\* r.alias tells whether the local name `rules` of a handler is bound to the
\* very list object that DEFAULT_RULES names, and not to a list of its own:
\* what append and pop then do to `rules` they do to that object.
ObjectAfter(r) == IF r.alias THEN r.rules ELSE defaults

\* The step of thread t that leaves it with locals r.
Step(t, r) ==
    /\ th' = [th EXCEPT ![t] = r]
    /\ solo' = IF solo.who = t THEN solo ELSE Nobody
    /\ defaults' = ObjectAfter(r)

Busy(t) == \E u \in Threads : u # t /\ th[u].pc # "idle"

\* The first step of a request on thread t.  Which idle thread takes the
\* request makes no difference to the program, so the lowest one does.
Begin(t, r) ==
    /\ th[0].pc = "serving"
    /\ th[t].pc = "idle"
    /\ \A u \in Threads : u < t => th[u].pc # "idle"
    /\ nreq < MaxRequests
    /\ Busy(t) => novl < MaxOverlap
    /\ nreq' = nreq + 1
    /\ novl' = IF Busy(t) THEN novl + 1 ELSE novl
    /\ th' = [th EXCEPT ![t] = r]
    /\ solo' = IF Busy(t) THEN Nobody
               ELSE [who |-> t, disk0 |-> disk, mem0 |-> BLOCKED_PATTERNS]
    /\ defaults' = ObjectAfter(r)

Fresh(kind, s) == [Idle EXCEPT !.kind = kind, !.sess = s]

Done(r, status, msg) ==
    [r EXCEPT !.pc = "done", !.resp = [status |-> status, msg |-> msg, answer |-> <<>>]]

\* ------------------------------------------------- save_rules (lines 60-62)
\* Python buffers what json.dump writes and hands it to the file system when
\* the buffer fills and when the file is closed; BufferTokens is the buffer
\* size in tokens.
BufferTokens == 26

\* write(2) of toks at offset off of a file holding data: the file grows as
\* needed and a gap before off reads as NUL bytes.
WriteAt(data, off, toks) ==
    LET n == IF Len(data) > off + Len(toks) THEN Len(data) ELSE off + Len(toks)
    IN  [i \in 1..n |->
            IF i > off /\ i <= off + Len(toks) THEN toks[i - off]
            ELSE IF i <= Len(data) THEN data[i]
            ELSE Tok("nul")]

\* The call save_rules(list), to return at label ret.
CallSave(r, list, ret) ==
    [r EXCEPT !.pc = "sv_open", !.sv_list = list, !.sv_off = 0, !.sv_ret = ret]

\* The call load_rules(), to return at label ret.  Lines 48-49 run with the
\* call: once the server serves the file always exists (FileKept below), so
\* what exists() answers does not depend on when it is asked.
CallLoad(r, ret) ==
    LET r2 == [r EXCEPT !.lr_ret = ret, !.raw = NoRaw, !.created = FALSE,
                        !.recovered = FALSE]
    IN  IF disk.exists
        THEN [r2 EXCEPT !.pc = "lr_read"]
        ELSE CallSave([r2 EXCEPT !.created = TRUE], defaults, "lr_read")

\* --------------------------------- the handlers' code between file accesses
\* Pop that takes the first element whatever the index.
PopHead(list, i) == Tail(list)

\* list.pop(i) for 0 <= i < len(list): the list that is left.
Pop(list, i) == SubSeq(list, 1, i) \o SubSeq(list, i + 2, Len(list))

\* AddAppend that leaves out a pattern the list already holds.
AddAppendUnique(r) ==
    LET rules == IF \E i \in 1..Len(r.rules) : r.rules[i] = Str(r.pattern)
                 THEN r.rules
                 ELSE Append(r.rules, Str(r.pattern))
    IN  CallSave([r EXCEPT !.rules = rules], rules, "add_reload")

\* Lines 324-325: rules.append(pattern); save_rules(rules).
AddAppend(r) ==
    LET rules == Append(r.rules, Str(r.pattern))
    IN  CallSave([r EXCEPT !.rules = rules], rules, "add_reload")

\* RemoveCheck with the test `idx < len(rules)` alone: a negative index then
\* reaches list.pop, which counts it from the end.
RemoveCheckNoLowerBound(r) ==
    IF r.idx < Len(r.rules) /\ Len(r.rules) > 0
    THEN LET i == r.idx % Len(r.rules)
             rules == Pop(r.rules, i)
         IN  CallSave([r EXCEPT !.removed = <<r.rules[i + 1]>>, !.rules = rules],
                      rules, "rm_reload")
    ELSE Done(r, 302, "Index out of range.")

\* Lines 342-344 and 347-348.
RemoveCheck(r) ==
    IF 0 <= r.idx /\ r.idx < Len(r.rules)
    THEN LET rules == Pop(r.rules, r.idx)
         IN  CallSave([r EXCEPT !.removed = <<r.rules[r.idx + 1]>>, !.rules = rules],
                      rules, "rm_reload")
    ELSE Done(r, 302, "Index out of range.")

\* Lines 345-346: admin_remove_rule has no global statement, so the name
\* BLOCKED_PATTERNS it assigns is a local variable of the handler.
RemoveAssign(r) == Done([r EXCEPT !.local_bp = r.rules], 302, "Removed rule")

\* Line 293: the dashboard lists the rules with their indices.
IndexRender(r) == Done(r, 200, "dashboard")

\* load_rules has returned r.rules to its caller at label r.lr_ret: the
\* caller's code up to its next access to the file or to the global.
AfterLoad(r) ==
    CASE r.lr_ret = "add_append" -> AddAppend(r)
      [] r.lr_ret = "rm_check" -> RemoveCheck(r)
      [] r.lr_ret = "rm_assign" -> RemoveAssign(r)
      [] r.lr_ret = "index_render" -> IndexRender(r)
      [] OTHER -> [r EXCEPT !.pc = r.lr_ret]

\* AfterSave with line 58 returning DEFAULT_RULES itself, not a copy of it.
AfterSaveNoCopy(r) ==
    CASE r.sv_ret = "lr_read" -> [r EXCEPT !.pc = "lr_read"]
      [] r.sv_ret = "lr_default" -> AfterLoad([r EXCEPT !.rules = defaults, !.alias = TRUE])
      [] r.sv_ret = "add_reload" -> CallLoad(r, "add_assign")
      [] r.sv_ret = "rm_reload" -> CallLoad(r, "rm_assign")
      [] r.sv_ret = "reset_reload" -> CallLoad(r, "reset_assign")
      [] OTHER -> r

\* save_rules has returned to its caller at label r.sv_ret; line 58 returns
\* DEFAULT_RULES.copy(), a new list with the elements DEFAULT_RULES has.
AfterSave(r) ==
    CASE r.sv_ret = "lr_read" -> [r EXCEPT !.pc = "lr_read"]
      [] r.sv_ret = "lr_default" -> AfterLoad([r EXCEPT !.rules = defaults, !.alias = FALSE])
      [] r.sv_ret = "add_reload" -> CallLoad(r, "add_assign")
      [] r.sv_ret = "rm_reload" -> CallLoad(r, "rm_assign")
      [] r.sv_ret = "reset_reload" -> CallLoad(r, "reset_assign")
      [] OTHER -> r

\* Recover with line 57 left out: the defaults are returned, not saved.
RecoverNoSave(r) ==
    AfterLoad([r EXCEPT !.recovered = TRUE, !.rules = defaults, !.alias = FALSE])

\* Lines 56-58: the handler saves the defaults, then returns a copy of them.
Recover(r) == CallSave([r EXCEPT !.recovered = TRUE], defaults, "lr_default")

\* SaveOpen for a file opened without truncation (mode "r+").
SaveOpenKeeping(t) ==
    /\ th[t].pc = "sv_open"
    /\ disk' = File(disk.data)
    /\ Step(t, [th[t] EXCEPT !.pc = "sv_write"])
    /\ UNCHANGED <<BLOCKED_PATTERNS, session, nreq, novl, hist>>

\* Line 61: open(..., "w") creates the file or truncates it to nothing.
SaveOpen(t) ==
    /\ th[t].pc = "sv_open"
    /\ disk' = File(<<>>)
    /\ Step(t, [th[t] EXCEPT !.pc = "sv_write"])
    /\ UNCHANGED <<BLOCKED_PATTERNS, session, nreq, novl, hist>>

\* Line 62, the buffer filling before the dump is complete.
SaveFlush(t) ==
    LET enc == JsonDump(th[t].sv_list)
        off == th[t].sv_off
    IN  /\ th[t].pc = "sv_write"
        /\ Len(enc) - off > BufferTokens
        /\ disk' = File(WriteAt(disk.data, off, SubSeq(enc, off + 1, off + BufferTokens)))
        /\ Step(t, [th[t] EXCEPT !.sv_off = off + BufferTokens])
        /\ UNCHANGED <<BLOCKED_PATTERNS, session, nreq, novl, hist>>

\* Leaving the with block of line 61: the rest is written and the file closed.
SaveClose(t) ==
    LET enc == JsonDump(th[t].sv_list)
        off == th[t].sv_off
    IN  /\ th[t].pc = "sv_write"
        /\ Len(enc) - off <= BufferTokens
        /\ disk' = File(WriteAt(disk.data, off, SubSeq(enc, off + 1, Len(enc))))
        /\ Step(t, AfterSave([th[t] EXCEPT !.sv_off = 0]))
        /\ UNCHANGED <<BLOCKED_PATTERNS, session, nreq, novl, hist>>

\* ------------------------------------------------- load_rules (lines 47-58)
\* Lines 50-58: the file is read and parsed; a list is returned as parsed,
\* anything else (an exception, a value that is no list) enters the handler
\* of line 56, which saves the defaults and returns a copy of them.
LoadRead(t) ==
    LET r == [th[t] EXCEPT !.raw = [read |-> TRUE, data |-> disk.data]]
    IN  /\ th[t].pc = "lr_read"
        /\ Step(t, IF disk.exists /\ LoadsList(disk.data)
                   THEN AfterLoad([r EXCEPT !.rules = JsonLoad(disk.data).val,
                                            !.alias = FALSE])
                   ELSE Recover(r))
        /\ UNCHANGED <<disk, BLOCKED_PATTERNS, session, nreq, novl, hist>>

\* The assignment BLOCKED_PATTERNS = load_rules() where the name is the
\* module's: lines 328, 356 and 366, each under a global statement.
AssignGlobal(t, r) ==
    /\ BLOCKED_PATTERNS' = th[t].rules
    /\ hist' = hist \cup {th[t].rules}
    /\ Step(t, r)
    /\ UNCHANGED <<disk, session, nreq, novl>>

\* Line 65; the server then starts.
BootAssign ==
    /\ th[0].pc = "boot_assign"
    /\ BLOCKED_PATTERNS' = th[0].rules
    /\ hist' = {th[0].rules}
    /\ th' = [th EXCEPT ![0] = [Idle EXCEPT !.kind = "boot", !.pc = "serving"]]
    /\ solo' = Nobody
    /\ defaults' = defaults
    /\ UNCHANGED <<disk, session, nreq, novl>>

\* ----------------------------------------------- is_malicious (lines 67-82)
\* CheckSnapshot for a request that keeps the list of its first check.
CheckSnapshotFirst(r, which) == IF which = "answer" THEN r.snap1 ELSE BLOCKED_PATTERNS

\* CheckSnapshot for a check that takes its rules from rules.json.
CheckSnapshotFromFile(r, which) == JsonLoad(disk.data).val

\* Line 69: the list object the for statement of check `which` of request r
\* takes its iterator from, the one the global name is bound to just then.
CheckSnapshot(r, which) == BLOCKED_PATTERNS

\* IterList for a loop that indexes the global name anew at every turn.
IterListRebound(t) == BLOCKED_PATTERNS

\* The list the iterator of line 69 reads its next element from: the object
\* it was created on, whatever BLOCKED_PATTERNS has been rebound to since.
IterList(t) == th[t].it

\* The call is_malicious(text), lines 68-69: the text is lower-cased when
\* it is compared and the loop is entered.
CallCheck(r, which, text) ==
    [r EXCEPT !.pc = "check_loop", !.chk = which, !.text = text,
              !.it = CheckSnapshot(r, which), !.pos = 0, !.seen = <<>>, !.ended = "no",
              !.snap1 = IF which = "prompt" THEN CheckSnapshot(r, which) ELSE @]

\* AfterPromptCheck without the return of lines 268-269.
AfterPromptCheckOpen(r, v) ==
    [r EXCEPT !.verdict1 = IF v THEN "true" ELSE "false", !.pc = "generate"]

\* chat_api after is_malicious(prompt) returned v (lines 267-269).
AfterPromptCheck(r, v) ==
    IF v
    THEN Done([r EXCEPT !.verdict1 = "true"], 403, "refused: blocked content")
    ELSE [r EXCEPT !.verdict1 = "false", !.pc = "generate"]

\* chat_api after is_malicious(answer) returned v (lines 278-282).
AfterAnswerCheck(r, v) ==
    IF v
    THEN Done([r EXCEPT !.verdict2 = "true"], 403, "refused: generated content")
    ELSE [r EXCEPT !.verdict2 = "false", !.pc = "done",
             !.resp = [status |-> 200, msg |-> "answer", answer |-> r.answer]]

CheckReturn(r, v) ==
    IF r.chk = "prompt" THEN AfterPromptCheck(r, v) ELSE AfterAnswerCheck(r, v)

\* One turn of the for loop of line 69: the iterator yields the next rule or
\* is exhausted (line 82); the body is lines 70-81.
CheckIter(t) ==
    LET r == th[t]
        list == IterList(t)
    IN  /\ r.pc = "check_loop"
        /\ IF r.pos < Len(list)
           THEN LET pat == list[r.pos + 1]
                    v == RuleVerdict(pat, Lower(r.text))
                    r2 == [r EXCEPT !.pos = @ + 1, !.seen = Append(@, pat)]
                IN  Step(t, CASE v = "match" -> CheckReturn([r2 EXCEPT !.ended = "match"], TRUE)
                              [] v = "raise" -> Done([r2 EXCEPT !.ended = "raise"], 500, "unhandled exception")
                              [] OTHER -> r2)
           ELSE Step(t, CheckReturn([r EXCEPT !.ended = "exhausted"], FALSE))
        /\ UNCHANGED <<disk, BLOCKED_PATTERNS, session, nreq, novl, hist>>

\* --------------------------------------------------- chat_api (lines 261-282)
\* Lines 263-267: a body without a prompt is answered 400; else the prompt
\* is stripped and checked.
chat_api(t, body) ==
    /\ Begin(t, IF body.has
                THEN CallCheck([Fresh("chat", "none") EXCEPT !.prompt = Strip(body.prompt)],
                               "prompt", Strip(body.prompt))
                ELSE Done(Fresh("chat", "none"), 400, "no prompt"))
    /\ UNCHANGED <<disk, BLOCKED_PATTERNS, session, hist>>

\* Lines 272-278: generate_text raises, or returns the stripped text
\* (line 102), which is checked in turn.
ChatGenerate(t, out) ==
    /\ th[t].pc = "generate"
    /\ Step(t, IF out.ok
               THEN CallCheck([th[t] EXCEPT !.gen = "ok", !.answer = Strip(out.text)],
                              "answer", Strip(out.text))
               ELSE Done([th[t] EXCEPT !.gen = "failed"], 500, "model generation failed"))
    /\ UNCHANGED <<disk, BLOCKED_PATTERNS, session, nreq, novl, hist>>

\* The response leaves; the thread is free for the next request.
Respond(t) ==
    /\ th[t].pc = "done"
    /\ Step(t, Idle)
    /\ UNCHANGED <<disk, BLOCKED_PATTERNS, session, nreq, novl, hist>>

\* ------------------------------------------- admin session (lines 285-313)
is_admin_logged_in(s) == session[s]

\* Line 29: the password the server was started with, and another one.
ADMIN_PASSWORD == "secret"

Passwords == {ADMIN_PASSWORD, "guess"}

admin_login(t, s, pw) ==
    /\ Begin(t, Done(Fresh("login", s), 302,
                     IF pw = ADMIN_PASSWORD THEN "Logged in." ELSE "Incorrect password."))
    /\ session' = IF pw = ADMIN_PASSWORD THEN [session EXCEPT ![s] = TRUE] ELSE session
    /\ UNCHANGED <<disk, BLOCKED_PATTERNS, hist>>

admin_logout(t, s) ==
    /\ Begin(t, Done(Fresh("logout", s), 302, "Logged out."))
    /\ session' = [session EXCEPT ![s] = FALSE]
    /\ UNCHANGED <<disk, BLOCKED_PATTERNS, hist>>

\* The early return of every admin handler for a session that is not an
\* admin's (lines 290-291, 317-318, 334-335, 353-354, 362-363).
NotAdmin(kind, s) == Done(Fresh(kind, s), 302, "")

\* Lines 288-293.
admin_index(t, s) ==
    /\ Begin(t, IF is_admin_logged_in(s)
                THEN CallLoad(Fresh("index", s), "index_render")
                ELSE Done(Fresh("index", s), 200, "login page"))
    /\ UNCHANGED <<disk, BLOCKED_PATTERNS, session, hist>>

\* admin_add_rule without the test of lines 320-322.
admin_add_rule_NoEmptyTest(t, s, form) ==
    LET r == [Fresh("add", s) EXCEPT !.form = form, !.pattern = Strip(form)]
    IN  /\ Begin(t, IF ~is_admin_logged_in(s) THEN NotAdmin("add", s)
                    ELSE CallLoad(r, "add_append"))
        /\ UNCHANGED <<disk, BLOCKED_PATTERNS, session, hist>>

\* Lines 315-323.
admin_add_rule(t, s, form) ==
    LET r == [Fresh("add", s) EXCEPT !.form = form, !.pattern = Strip(form)]
    IN  /\ Begin(t, IF ~is_admin_logged_in(s) THEN NotAdmin("add", s)
                    ELSE IF r.pattern = <<>> THEN Done(r, 302, "Empty pattern cannot be added.")
                    ELSE CallLoad(r, "add_append"))
        /\ UNCHANGED <<disk, BLOCKED_PATTERNS, session, hist>>

\* Lines 327-330.
AddAssign(t) ==
    /\ th[t].pc = "add_assign"
    /\ AssignGlobal(t, Done(th[t], 302, "Added rule"))

\* Lines 332-341: request.form.get("index", "-1") is parsed by int().
admin_remove_rule(t, s, form) ==
    LET text == IF form.has THEN form.text ELSE <<"-", "1">>
        r == [Fresh("remove", s) EXCEPT !.form = text, !.idx = IntParse(text).n]
    IN  /\ Begin(t, IF ~is_admin_logged_in(s) THEN NotAdmin("remove", s)
                    ELSE IF ~IntParse(text).ok THEN Done(r, 302, "Invalid index.")
                    ELSE CallLoad(r, "rm_check"))
        /\ UNCHANGED <<disk, BLOCKED_PATTERNS, session, hist>>

\* Lines 351-358.
admin_reload_rules(t, s) ==
    /\ Begin(t, IF ~is_admin_logged_in(s) THEN NotAdmin("reload", s)
                ELSE CallLoad(Fresh("reload", s), "reload_assign"))
    /\ UNCHANGED <<disk, BLOCKED_PATTERNS, session, hist>>

ReloadAssign(t) ==
    /\ th[t].pc = "reload_assign"
    /\ AssignGlobal(t, Done(th[t], 302, "Rules reloaded from disk."))

\* admin_reset_rules without the test of lines 362-363.
admin_reset_rules_NoLoginTest(t, s) ==
    /\ Begin(t, CallSave(Fresh("reset", s), defaults, "reset_reload"))
    /\ UNCHANGED <<disk, BLOCKED_PATTERNS, session, hist>>

\* Lines 360-368.
admin_reset_rules(t, s) ==
    /\ Begin(t, IF ~is_admin_logged_in(s) THEN NotAdmin("reset", s)
                ELSE CallSave(Fresh("reset", s), defaults, "reset_reload"))
    /\ UNCHANGED <<disk, BLOCKED_PATTERNS, session, hist>>

ResetAssign(t) ==
    /\ th[t].pc = "reset_assign"
    /\ AssignGlobal(t, Done(th[t], 302, "Rules reset to default."))

\* ------------------------------------------------------------------ inputs
\* The regex-tagged rule with body b.
Re(b) == Str(RegexTag \o b)

\* rules.json as the server finds it when it starts.
InitFiles ==
    { NoFile,
      File(<<Tok("junk")>>),
      File(<<Tok("{"), Tok("}")>>),
      File(<<Str(<<"a">>)>>),
      File(JsonDump(<<Str(<<"a">>)>>)),
      File(JsonDump(<<Str(<<"A", "b">>), Re(<<"(">>)>>)) }

\* The bodies of /chat requests.
NoPrompt == [has |-> FALSE, prompt |-> <<>>]

Prompt(s) == [has |-> TRUE, prompt |-> s]

Prompts == { NoPrompt, Prompt(<<" ", "A", " ">>), Prompt(<<"b">>) }

\* What generate_text does: it raises, or returns a text.
GenFails == [ok |-> FALSE, text |-> <<>>]

Generated(s) == [ok |-> TRUE, text |-> s]

GenOutcomes == { GenFails, Generated(<<"b", " ">>), Generated(<<"d", "d", "o", "s">>) }

\* The pattern field of /admin/add.
PatternForms == { <<>>, <<" ">>, <<" ", "b", " ">> }

\* The index field of /admin/remove, absent or as typed.
NoIndex == [has |-> FALSE, text |-> <<>>]

Index(s) == [has |-> TRUE, text |-> s]

IndexForms == { NoIndex, Index(<<"0">>), Index(<<" ", "1">>), Index(<<"9", "9">>), Index(<<"x">>) }

\* ------------------------------------------------------------ specification
InitWith(files) ==
    /\ disk \in files
    /\ defaults = DEFAULT_RULES
    /\ BLOCKED_PATTERNS = <<>>
    /\ session = [s \in Sessions |-> s = "s1"]
    /\ th = [t \in AllThreads |->
                IF t = 0 THEN CallLoad([Idle EXCEPT !.kind = "boot"], "boot_assign") ELSE Idle]
    /\ nreq = 0
    /\ novl = 0
    /\ solo = [who |-> 0, disk0 |-> disk, mem0 |-> <<>>]
    /\ hist = {}

Init == InitWith(InitFiles)

\* The steps inside load_rules, save_rules and is_malicious.
Inner(t) ==
    \/ LoadRead(t)
    \/ SaveOpen(t)
    \/ SaveFlush(t)
    \/ SaveClose(t)

Next ==
    \/ BootAssign
    \/ \E t \in AllThreads : Inner(t)
    \/ \E t \in Threads :
          \/ \E body \in Prompts : chat_api(t, body)
          \/ CheckIter(t)
          \/ \E out \in GenOutcomes : ChatGenerate(t, out)
          \/ Respond(t)
          \/ AddAssign(t)
          \/ ReloadAssign(t)
          \/ ResetAssign(t)
          \/ \E s \in Sessions :
                \/ \E pw \in Passwords : admin_login(t, s, pw)
                \/ admin_logout(t, s)
                \/ admin_index(t, s)
                \/ \E form \in PatternForms : admin_add_rule(t, s, form)
                \/ \E form \in IndexForms : admin_remove_rule(t, s, form)
                \/ admin_reload_rules(t, s)
                \/ admin_reset_rules(t, s)

Spec == Init /\ [][Next]_vars

\* After start-up the file is never missing again (CallLoad relies on it).
FileKept == th[0].pc = "serving" => disk.exists

\* ------------------------------------------------- the matcher on its own
\* Rules and texts for the runs that exercise is_malicious: every rule list
\* of up to MaxRules elements of RulePool (rules, and a number, which a file
\* written by hand can hold) is the start-up file of one run, and
\* the prompts are all texts of up to MaxTextLen characters of TextChars and
\* one that holds an uncompilable rule's own text.  The requests come one
\* after another, on thread 1.
RulePool ==
    { Str(<<"A", "b">>), Str(<<"B">>), Re(<<"A">>), Re(<<"a", ".">>), Re(<<"(">>),
      Num(<<"1">>) }

RuleLists == UNION { [1..n -> RulePool] : n \in 0..MaxRules }

TextChars == {"a", "A", "b"}

Texts == UNION { [1..n -> TextChars] : n \in 0..MaxTextLen } \cup { <<"R", "e", ":", "(">> }

CheckFiles == { File(JsonDump(list)) : list \in RuleLists }

InitCheck == InitWith(CheckFiles)

NextCheck ==
    \/ BootAssign
    \/ LoadRead(0)
    \/ \E t \in {1} :
          \/ \E text \in Texts : chat_api(t, Prompt(text))
          \/ CheckIter(t)
          \/ \E out \in GenOutcomes : ChatGenerate(t, out)
          \/ Respond(t)

SpecCheck == InitCheck /\ [][NextCheck]_vars

\* --------------------------------------------------- the store on its own
\* Rules for the runs that exercise load_rules and save_rules through the
\* admin handlers: every list of up to MaxRules rules of StorePool, and no
\* file and a file that does not parse, is the start-up file of one run.
\* The requests are those of one logged-in admin, one after another.
StorePool == { Str(<<"b">>), Str(<<"\"">>), Str(<<"\\", "b">>) }

StoreLists == UNION { [1..n -> StorePool] : n \in 0..MaxRules }

StoreFiles == { File(JsonDump(list)) : list \in StoreLists } \cup { NoFile, File(<<Tok("junk")>>) }

InitStore == InitWith(StoreFiles)

NextStore ==
    \/ BootAssign
    \/ Inner(0)
    \/ \E t \in {1} :
          \/ Inner(t)
          \/ Respond(t)
          \/ AddAssign(t)
          \/ ReloadAssign(t)
          \/ ResetAssign(t)
          \/ \E s \in {"s1"} :
                \/ admin_index(t, s)
                \/ \E form \in PatternForms : admin_add_rule(t, s, form)
                \/ \E form \in IndexForms : admin_remove_rule(t, s, form)
                \/ admin_reload_rules(t, s)
                \/ admin_reset_rules(t, s)

SpecStore == InitStore /\ [][NextStore]_vars

\* ------------------------------------------------------------------ claims
\* The rule list rules.json holds, when it holds one.
DiskRules == JsonLoad(disk.data).val

DiskWellFormed == disk.exists /\ LoadsList(disk.data)

\* Thread t has finished a request that ran with nothing interleaved.
SoloDone(t, kind) ==
    /\ solo.who = t
    /\ th[t].kind = kind
    /\ th[t].pc = "done"

\* The admin operation of thread t ran to its end (it was not turned away
\* and did not stop at a rejected input).
Completed(t) ==
    th[t].resp.msg \in { "Added rule", "Removed rule", "Rules reloaded from disk.",
                         "Rules reset to default." }

\* C1: after an add, an in-range remove, a reload or a reset that a logged-in
\* admin ran with no other request interleaved, BLOCKED_PATTERNS equals the
\* rule list on disk.
C1_MemoryMatchesDisk ==
    \A t \in Threads :
        (\E kind \in {"add", "remove", "reload", "reset"} : SoloDone(t, kind)) /\ Completed(t)
            => DiskWellFormed /\ BLOCKED_PATTERNS = DiskRules

\* The same for add, reload and reset alone: those three do re-synchronise.
C1_HoldsWithoutRemove ==
    \A t \in Threads :
        (\E kind \in {"add", "reload", "reset"} : SoloDone(t, kind)) /\ Completed(t)
            => DiskWellFormed /\ BLOCKED_PATTERNS = DiskRules

IsPrefix(s, list) == Len(s) <= Len(list) /\ s = SubSeq(list, 1, Len(s))

Checking(t) == th[t].kind = "chat" /\ th[t].chk # "none"

\* C2: the rules a check has evaluated are, at every moment, the first rules
\* of one list BLOCKED_PATTERNS has been bound to, and all of that list when
\* the loop ran off its end: never a mix of two lists or a part of one.
C2_CheckSeesOneWholeList ==
    \A t \in Threads :
        Checking(t) =>
            \E list \in hist :
                /\ IsPrefix(th[t].seen, list)
                /\ th[t].ended = "exhausted" => th[t].seen = list

\* C2's case: an add completed while a check was part-way through its list.
C2_Witness ==
    \E t, u \in Threads :
        /\ Checking(t) /\ th[t].pc = "check_loop" /\ th[t].pos >= 1
        /\ th[u].kind = "add" /\ th[u].resp.msg = "Added rule"
        /\ BLOCKED_PATTERNS # th[t].it

\* C3: a load_rules of a request never reads the file torn or empty, and so
\* never runs the recovery that overwrites it with the defaults.  (When the
\* server starts serving the file holds a complete list.)
C3_ReadersSeeWholeFile ==
    \A t \in Threads :
        /\ th[t].raw.read => LoadsList(th[t].raw.data)
        /\ ~th[t].recovered

\* What is_malicious(text) returns on rule list `list`: the first rule that
\* does not pass decides.
Blocks(list, text) ==
    \E i \in 1..Len(list) :
        /\ RuleVerdict(list[i], Lower(text)) = "match"
        /\ \A j \in 1..(i - 1) : RuleVerdict(list[j], Lower(text)) = "next"

ChatDone(t) == th[t].kind = "chat" /\ th[t].pc = "done"

\* C4: a chat request returns the generated answer only if the check of the
\* stripped prompt returned false, generation succeeded and the check of the
\* output returned false; a blocked prompt is refused with the generator
\* never called, and a failed generation ends in an error with no answer.
C4_AnswerOnlyAfterBothChecks ==
    \A t \in Threads :
        ChatDone(t) =>
            /\ th[t].resp.status = 200 =>
                  /\ ~Blocks(th[t].snap1, th[t].prompt)
                  /\ th[t].gen = "ok"
                  /\ ~Blocks(th[t].it, th[t].answer)
                  /\ th[t].resp.answer = th[t].answer
            /\ th[t].resp.status # 200 => th[t].resp.answer = <<>>
            /\ Blocks(th[t].snap1, th[t].prompt) =>
                  th[t].gen = "no" /\ th[t].resp.status = 403
            /\ th[t].gen = "failed" => th[t].resp.status = 500

\* C4's case: an answer went out after both checks passed.
C4_Witness ==
    \E t \in Threads :
        ChatDone(t) /\ th[t].resp.status = 200 /\ th[t].resp.answer # <<>>

\* C5 as claimed: the check of the output iterates the list that the check of
\* the prompt iterated.
C5_SameSnapshot ==
    \A t \in Threads :
        th[t].kind = "chat" /\ th[t].chk = "answer" => th[t].it = th[t].snap1

\* C5, amended: each of the two checks of a chat request iterates the list
\* BLOCKED_PATTERNS is bound to at the moment that check begins.
C5_EachCheckTakesCurrentList ==
    [][\A t \in Threads :
          th'[t].pc = "check_loop" /\ th[t].pc \in {"idle", "generate"}
              => th'[t].it = BLOCKED_PATTERNS]_vars

\* C5's case: the list was rebound between the two checks of one request.
C5_Witness ==
    \E t \in Threads :
        th[t].kind = "chat" /\ th[t].chk = "answer" /\ th[t].it # th[t].snap1

BadFile(f) == ~f.exists \/ ~LoadsList(f.data)

\* load_rules has just returned to the main thread or to a reload.
Loaded(t) == th[t].pc \in {"boot_assign", "reload_assign"}

\* C6: called with nothing interleaved on a file that is absent, unparseable
\* or no list, load_rules returns exactly the defaults and leaves the file
\* holding exactly the defaults.
C6_RecoveryYieldsDefaults ==
    \A t \in AllThreads :
        solo.who = t /\ Loaded(t) /\ BadFile(solo.disk0)
            => /\ th[t].rules = DEFAULT_RULES
               /\ disk = File(JsonDump(DEFAULT_RULES))

\* C6's case: load_rules returned after finding a file that does not parse
\* to a list.
C6_Witness ==
    \E t \in AllThreads :
        solo.who = t /\ Loaded(t) /\ solo.disk0.exists /\ ~LoadsList(solo.disk0.data)

\* The index of the remove request of thread t is no index of the list the
\* file held when the request began.
BadIndex(t) ==
    LET p == IntParse(th[t].form)
    IN  ~p.ok \/ p.n < 0 \/ p.n >= Len(JsonLoad(solo.disk0.data).val)

\* C7: a logged-in admin's remove whose index is too large, negative or no
\* integer, run with nothing interleaved on a file holding a list, leaves
\* the file and BLOCKED_PATTERNS as they were and ends with one of the two
\* error messages, not with an exception.
C7_BadIndexChangesNothing ==
    \A t \in Threads :
        /\ SoloDone(t, "remove")
        /\ session[th[t].sess]
        /\ ~BadFile(solo.disk0)
        /\ BadIndex(t)
        => /\ disk = solo.disk0
           /\ BLOCKED_PATTERNS = solo.mem0
           /\ th[t].resp.status = 302
           /\ th[t].resp.msg \in {"Index out of range.", "Invalid index."}

\* C7's case: a remove with an index past the end of the list has ended.
C7_Witness ==
    \E t \in Threads :
        /\ SoloDone(t, "remove")
        /\ ~BadFile(solo.disk0)
        /\ IntParse(th[t].form).ok
        /\ IntParse(th[t].form).n >= Len(JsonLoad(solo.disk0.data).val)
        /\ th[t].resp.msg = "Index out of range."

\* The first check of the chat request of thread t has come to its end: on
\* the list snap1, for the text th[t].prompt.
PromptCheckEnded(t) ==
    th[t].kind = "chat" /\ th[t].chk = "prompt" /\ th[t].ended # "no"

AllStr(list) == \A i \in 1..Len(list) : IsStr(list[i])

IsRegexRule(rule) == IsStr(rule) /\ StartsWith(rule.s, RegexTag)

IsBadRegex(rule) == IsRegexRule(rule) /\ ~ReCompiles(RegexBody(rule.s))

\* What C8 has rule `rule` decide for text: an uncompilable regex rule is
\* the literal, lower-cased, of its whole text.
C8_RuleBlocks(rule, text) ==
    IF IsBadRegex(rule) THEN Contains(Lower(text), Lower(rule.s))
    ELSE IF IsRegexRule(rule) THEN ReSearch(RegexBody(rule.s), Lower(text))
    ELSE Contains(Lower(text), Lower(rule.s))

\* C8: on a list of str rules with a regex-tagged rule that does not
\* compile, the check does not raise; that rule counts as the literal of its
\* raw text and the rules after it are evaluated, so the verdict is true
\* exactly when some rule of the list blocks the text.
C8_BadRegexFallsBack ==
    \A t \in Threads :
        /\ PromptCheckEnded(t)
        /\ AllStr(th[t].snap1)
        /\ \E i \in 1..Len(th[t].snap1) : IsBadRegex(th[t].snap1[i])
        => /\ th[t].ended # "raise"
           /\ (th[t].ended = "match") <=>
                 \E i \in 1..Len(th[t].snap1) : C8_RuleBlocks(th[t].snap1[i], th[t].prompt)

\* C8's case: a rule after the uncompilable one has blocked the text.
C8_Witness ==
    \E t \in Threads :
        /\ PromptCheckEnded(t)
        /\ th[t].ended = "match"
        /\ th[t].pos = 2
        /\ IsBadRegex(th[t].seen[1])

\* C8, the fallback itself: the raw text of the uncompilable rule blocked.
C8_WitnessFallback ==
    \E t \in Threads :
        /\ PromptCheckEnded(t)
        /\ th[t].ended = "match"
        /\ IsBadRegex(th[t].seen[th[t].pos])

\* C9: a regex rule decides a text as it decides any other letter-casing of
\* rule and text: the verdict on a list of one compilable regex rule is that
\* of the lower-cased pattern on the lower-cased text.
C9_RegexIgnoresCase ==
    \A t \in Threads :
        /\ PromptCheckEnded(t)
        /\ Len(th[t].snap1) = 1
        /\ IsRegexRule(th[t].snap1[1])
        /\ ~IsBadRegex(th[t].snap1[1])
        => ((th[t].ended = "match") <=>
               ReSearch(Lower(RegexBody(th[t].snap1[1].s)), Lower(th[t].prompt)))

AllLiteral(list) == \A i \in 1..Len(list) : IsStr(list[i]) /\ ~IsRegexRule(list[i])

\* C10: on a list of literal rules the check returns true exactly when some
\* rule, lower-cased, occurs in the lower-cased text, whatever the order of
\* the rules and however many of them occur.
C10_LiteralRulesDecide ==
    \A t \in Threads :
        PromptCheckEnded(t) /\ AllLiteral(th[t].snap1)
            => /\ th[t].ended \in {"match", "exhausted"}
               /\ (th[t].ended = "match") <=>
                     \E i \in 1..Len(th[t].snap1) :
                         Contains(Lower(th[t].prompt), Lower(th[t].snap1[i].s))
               /\ th[t].verdict1 = IF th[t].ended = "match" THEN "true" ELSE "false"

\* C10's case: the second of two literal rules, one written with a capital,
\* blocked a text written with other capitals.
C10_Witness ==
    \E t \in Threads :
        /\ PromptCheckEnded(t)
        /\ AllLiteral(th[t].snap1)
        /\ th[t].ended = "match"
        /\ th[t].pos = 2
        /\ Lower(th[t].seen[2].s) # th[t].seen[2].s
        /\ Lower(th[t].prompt) # th[t].prompt

\* The add request of thread t stopped at the empty-pattern test.
EmptyAddRejected(t) ==
    /\ th[t].kind = "add"
    /\ th[t].pc = "done"
    /\ th[t].resp.msg = "Empty pattern cannot be added."

\* C11: an add by a logged-in admin whose pattern is empty or all whitespace
\* is answered in the step it arrives in, with the rejection message: it
\* calls neither load_rules nor save_rules, and the file and
\* BLOCKED_PATTERNS are after the request what they were before it.
C11_EmptyAddTouchesNothing ==
    [][\A t \in Threads, s \in Sessions, form \in PatternForms :
          /\ admin_add_rule(t, s, form)
          /\ session[s]
          /\ \A i \in 1..Len(form) : IsSpace(form[i])
          => /\ EmptyAddRejected(t)'
             /\ th'[t].lr_ret = "none" /\ th'[t].sv_ret = "none" /\ ~th'[t].raw.read
             /\ disk' = disk
             /\ BLOCKED_PATTERNS' = BLOCKED_PATTERNS]_vars

\* C11's case: an add of a pattern of one blank has been rejected.
C11_Witness ==
    \E t \in Threads :
        EmptyAddRejected(t) /\ th[t].form = <<" ">> /\ session[th[t].sess]

\* load_rules has returned to thread t, which called it right after its own
\* save_rules(th[t].sv_list): lines 325-328, 344-345 and 364-366.
SavedThenLoaded(t) ==
    \/ th[t].pc \in {"add_assign", "reset_assign"}
    \/ th[t].kind = "remove" /\ th[t].resp.msg = "Removed rule"

HasDuplicate(list) == \E i, j \in 1..Len(list) : i # j /\ list[i] = list[j]

\* C12: save_rules(R) followed by load_rules() with nothing interleaved, R a
\* list of strings: load_rules finds a file it can read and returns a list
\* equal to R, element for element.
C12_SaveThenLoadReturnsSame ==
    \A t \in Threads :
        solo.who = t /\ SavedThenLoaded(t) /\ AllStr(th[t].sv_list)
            => /\ ~th[t].recovered
               /\ th[t].rules = th[t].sv_list

\* C12's case: a list with a repeated rule and a rule written with an
\* escape came back from the file.
C12_Witness ==
    \E t \in Threads :
        /\ solo.who = t /\ SavedThenLoaded(t)
        /\ HasDuplicate(th[t].sv_list)
        /\ \E i \in 1..Len(th[t].sv_list) : JsonEscape(th[t].sv_list[i].s) # th[t].sv_list[i].s

\* C12's case: the empty list came back from the file.
C12_WitnessEmpty ==
    \E t \in Threads :
        solo.who = t /\ SavedThenLoaded(t) /\ th[t].sv_list = <<>>

\* C13: the list DEFAULT_RULES names always has the twelve elements it was
\* written with, and a reset run with nothing interleaved leaves those
\* twelve rules, in that order, both in the file and in BLOCKED_PATTERNS,
\* whatever requests came before it.
C13_ResetYieldsDefaults ==
    /\ defaults = DEFAULT_RULES
    /\ Len(DEFAULT_RULES) = 12
    /\ \A t \in Threads :
          SoloDone(t, "reset") /\ Completed(t)
              => /\ disk = File(JsonDump(DEFAULT_RULES))
                 /\ BLOCKED_PATTERNS = DEFAULT_RULES

\* C13's case: a reset, the third request of the run, replaced a file and a
\* list in memory that both differed from the defaults.
C13_Witness ==
    \E t \in Threads :
        /\ SoloDone(t, "reset") /\ Completed(t)
        /\ nreq = MaxRequests
        /\ solo.disk0 # File(JsonDump(DEFAULT_RULES))
        /\ solo.mem0 # DEFAULT_RULES

\* C13's case: a reset found the file and the list as a reset leaves them.
C13_WitnessAgain ==
    \E t \in Threads :
        /\ SoloDone(t, "reset") /\ Completed(t)
        /\ nreq >= 2
        /\ solo.disk0 = File(JsonDump(DEFAULT_RULES))
        /\ solo.mem0 = DEFAULT_RULES

StoreRequests == {"add", "remove", "reload", "reset"}

\* The request of thread t was turned away at the login test.
TurnedAway(t) ==
    /\ th[t].pc = "done"
    /\ th[t].resp.msg = ""
    /\ th[t].lr_ret = "none" /\ th[t].sv_ret = "none" /\ ~th[t].raw.read

\* C14: session[s] is set only by a login of s with the right password and
\* cleared by a logout; an add, remove, reload or reset sent by a session
\* whose flag is not set is turned away in the step it arrives in, without a
\* call of load_rules or save_rules and with the file and BLOCKED_PATTERNS
\* unchanged; and every change of the file or of BLOCKED_PATTERNS is a step
\* of a request that got past that test (or of the start-up load).
C14_OnlyLoggedInSessionsReachStore ==
    [][/\ \A s \in Sessions :
             session'[s] /\ ~session[s] =>
                 \E t \in Threads :
                     /\ th[t].pc = "idle" /\ th'[t].kind = "login" /\ th'[t].sess = s
                     /\ th'[t].resp.msg = "Logged in."
       /\ \A s \in Sessions :
             ~session'[s] /\ session[s] =>
                 \E t \in Threads :
                     th[t].pc = "idle" /\ th'[t].kind = "logout" /\ th'[t].sess = s
       /\ \A t \in Threads :
             /\ th[t].pc = "idle"
             /\ th'[t].kind \in StoreRequests
             /\ ~session[th'[t].sess]
             => /\ TurnedAway(t)'
                /\ disk' = disk
                /\ BLOCKED_PATTERNS' = BLOCKED_PATTERNS
       /\ (disk' # disk \/ BLOCKED_PATTERNS' # BLOCKED_PATTERNS) =>
             \E t \in AllThreads :
                 /\ th'[t] # th[t]
                 /\ th[t].pc \notin {"idle", "done"}
                 /\ th[t].kind \in StoreRequests \cup {"index", "boot"}]_vars

\* C14's case: a session that had logged out sent a request to change the
\* rules and was turned away.
C14_Witness ==
    \E t \in Threads :
        /\ th[t].kind \in StoreRequests
        /\ th[t].sess = "s1"
        /\ ~session["s1"]
        /\ TurnedAway(t)

\* C14's case: a session that logged in during the run changed the rules.
C14_WitnessLoggedIn ==
    \E t \in Threads :
        /\ th[t].kind = "add" /\ th[t].sess = "s2"
        /\ th[t].resp.msg = "Added rule"

\* C15: every list load_rules returns, the list BLOCKED_PATTERNS is bound to
\* and every list a check iterates hold nothing but strings, whatever the
\* file held.
C15_LoadedRulesAreStrings ==
    /\ \A t \in AllThreads : Loaded(t) => AllStr(th[t].rules)
    /\ AllStr(BLOCKED_PATTERNS)
    /\ \A t \in Threads : Checking(t) => AllStr(th[t].it)

\* The add of thread t has reported success.
AddDone(t) ==
    th[t].kind = "add" /\ th[t].pc = "done" /\ th[t].resp.msg = "Added rule"

\* C16: when the first two requests of a run are adds with non-empty
\* patterns and both have reported success, the file holds a list two rules
\* longer than the list it held when the server began to serve (which is
\* the first list BLOCKED_PATTERNS was bound to, so a list of hist).
C16_ConcurrentAddsAllKept ==
    \A t, u \in Threads :
        t # u /\ nreq = 2 /\ AddDone(t) /\ AddDone(u)
            => /\ DiskWellFormed
               /\ \E first \in hist : Len(DiskRules) = Len(first) + 2

\* The list the file held when the request that runs alone began.
RulesBefore == JsonLoad(solo.disk0.data).val

\* That file held a list of strings.
StoreWellFormed == ~BadFile(solo.disk0) /\ AllStr(RulesBefore)

\* C17: run with nothing interleaved on a file holding a list R of strings,
\* an add of a pattern that is not blank leaves the file holding R followed
\* by the stripped pattern, whether or not R holds it already; a remove with
\* an index i, 0 <= i < len(R), leaves the file holding R without its
\* element i, the others in their order.
C17_AddAppendsRemoveDeletes ==
    \A t \in Threads :
        /\ SoloDone(t, "add") /\ Strip(th[t].form) # <<>> /\ StoreWellFormed
           => /\ th[t].resp.msg = "Added rule"
              /\ DiskWellFormed
              /\ DiskRules = RulesBefore \o <<Str(Strip(th[t].form))>>
        /\ SoloDone(t, "remove") /\ StoreWellFormed /\ ~BadIndex(t)
           => LET i == IntParse(th[t].form).n
              IN  /\ th[t].resp.msg = "Removed rule"
                  /\ DiskWellFormed
                  /\ Len(DiskRules) = Len(RulesBefore) - 1
                  /\ \A j \in 1..Len(DiskRules) :
                        DiskRules[j] = IF j <= i THEN RulesBefore[j] ELSE RulesBefore[j + 1]

\* C17's case: a pattern the list already held was added once more.
C17_Witness ==
    \E t \in Threads :
        /\ SoloDone(t, "add") /\ StoreWellFormed
        /\ \E i \in 1..Len(RulesBefore) : RulesBefore[i] = Str(Strip(th[t].form))
        /\ Len(DiskRules) = Len(RulesBefore) + 1

\* C17's case: a rule that was not the last one was removed.
C17_WitnessRemove ==
    \E t \in Threads :
        /\ SoloDone(t, "remove") /\ StoreWellFormed /\ ~BadIndex(t)
        /\ IntParse(th[t].form).n + 1 < Len(RulesBefore)
        /\ th[t].resp.msg = "Removed rule"

\* The remove of thread t has taken a rule out and reported it.
RemoveDone(t) ==
    th[t].kind = "remove" /\ th[t].pc = "done" /\ th[t].resp.msg = "Removed rule"

\* The list load_rules returned to the remove of thread t at line 341: the
\* list it saved with the rule it took out put back at its index.
ListFound(t) ==
    SubSeq(th[t].sv_list, 1, th[t].idx) \o th[t].removed
        \o SubSeq(th[t].sv_list, th[t].idx + 1, Len(th[t].sv_list))

\* C18: the index of a remove is a position in the list the remove itself
\* loads at line 341, whatever listing it was read off: the rule taken out
\* is the one at that position in the file as the remove reads it (or in the
\* defaults, when it reads no list), and the list saved is that list without
\* it.  Nothing holds the file still between the listing and the remove, so
\* two removes can interleave as in C18_Witness.
C18_RemoveGoesByPositionAtLoad ==
    [][\A t \in Threads :
          th[t].kind = "remove" /\ th[t].removed = <<>> /\ th'[t].removed # <<>>
              => LET found == IF th[t].pc = "lr_read" THEN JsonLoad(disk.data).val ELSE defaults
                     i == th[t].idx
                     left == th'[t].sv_list
                 IN  /\ 0 <= i /\ i < Len(found)
                     /\ th'[t].removed = <<found[i + 1]>>
                     /\ Len(left) = Len(found) - 1
                     /\ \A j \in 1..Len(left) :
                           left[j] = IF j <= i THEN found[j] ELSE found[j + 1]]_vars

\* C18's case: two removes whose indices name two different rules of the
\* list thread t found; the remove of thread u ran on the list t had saved
\* and took out a rule that is not the one at its index in the list t found.
C18_Witness ==
    \E t, u \in Threads :
        /\ t # u /\ RemoveDone(t) /\ RemoveDone(u)
        /\ th[t].idx # th[u].idx
        /\ th[u].idx < Len(ListFound(t))
        /\ ListFound(u) = th[t].sv_list
        /\ th[u].removed # <<ListFound(t)[th[u].idx + 1]>>

Rebinding == {"boot_assign", "add_assign", "reload_assign", "reset_assign"}

C19_WitnessPassed ==
    \E t \in Threads :
        th[t].kind = "chat" /\ th[t].verdict1 = "false" /\ th[t].pc = "generate"

====
